---------------------------- MODULE Spec2Model ----------------------------
(***************************************************************************)
(* A model of src/ocr_service.py: the command-line entry point main(), the *)
(* OCRService constructor and its three methods preprocess_image,          *)
(* extract_text_from_image and extract_text_from_base64.                   *)
(*                                                                         *)
(* One process instance is one run of main().  The instances of a run      *)
(* share one filesystem (fs).  The OCR engine (easyocr.Reader.readtext),   *)
(* the image codecs and the OpenCV transforms are external: what they      *)
(* return is a nondeterministic choice over bounded sets.                  *)
(*                                                                         *)
(* Numbers: a confidence is an integer number of millionths (0.1 is        *)
(* 100000); a polygon coordinate is an integer number of half pixels, so   *)
(* that int() has something to truncate.  A text is a sequence of          *)
(* one-character strings.                                                  *)
(***************************************************************************)
EXTENDS Integers, Sequences, FiniteSets, TLC

\* ------------------------------------------------------------------ bounds

\* Longest detection list the engine returns in a single-instance run.
MaxDet == 2

\* Longest detection list the engine returns when two instances run at once.
RaceMaxDet == 1

\* ------------------------------------------------------------- vocabulary

Procs == {1, 2}

None == "None"

ImagePath == "page.png"
MissingPath == "missing.png"

\* base64 payloads: two that decode to an image, one that does not.
PayloadOf(p) == IF p = 1 THEN "aW1hZ2Ux" ELSE "aW1hZ2Uy"
BadPayload == "!!not-an-image"

\* Polygons as readtext gives them: four points, clockwise.  A horizontal box
\* starts at its top-left corner; a free-form box (slanted text) starts at the
\* point with the smallest x + y, which need not be above its third point.
Polygons ==
    { << <<2, 2>>, <<11, 2>>, <<11, 7>>, <<2, 7>> >>,       \* axis-aligned box
      << <<0, 10>>, <<12, 0>>, <<16, 4>>, <<4, 14>> >> }    \* text rising to the right

Texts == { <<"a">>, <<" ", "b", " ">>, <<" ">> }

Confidences == {50000, 100000, 100001}

Detections == [bbox : Polygons, text : Texts, confidence : Confidences]

RaceDetections ==
    { [bbox |-> << <<2, 2>>, <<11, 2>>, <<11, 7>>, <<2, 7>> >>,
       text |-> <<"a">>, confidence |-> 100001] }

SeqsUpTo(S, n) == UNION { [1..k -> S] : k \in 0..n }

VARIABLES
    procs,      \* the process instances of this run
    args,       \* args[p]: the parsed command line of instance p
    pc,         \* pc[p]: where instance p is in main()
    reader,     \* reader[p]: "none" | "ready" | "failed" (self.reader)
    inits,      \* inits[p]: how many times easyocr.Reader was constructed
    started,    \* started[p]: an extract_text_from_* call has begun
    fs,         \* the shared filesystem: path -> image stored there
    tmpPath,    \* tmpPath[p]: local temp_path of extract_text_from_base64
    raw,        \* raw[p]: what readtext returned (local `results`, line 70)
    engineReturned, \* engineReturned[p]: readtext returned without raising
    results,    \* results[p]: main()'s `results`
    stdout,     \* stdout[p]: characters written to standard output
    stderr,     \* stderr[p]: diagnostic lines written to standard error
    exit,       \* exit[p]: <<>> while running, then <<code>>
    failures,   \* failures[p]: kinds of recoverable failure that happened
    wrote,      \* wrote[p]: cv2.imwrite stored the temp file
    ocrSaw      \* ocrSaw[p]: image the OCR step found at its path

vars == << procs, args, pc, reader, inits, started, fs, tmpPath, raw,
           engineReturned, results, stdout, stderr, exit, failures, wrote,
           ocrSaw >>

\* ------------------------------------------------------- pure operations

\* Python truthiness of an optional string argument (lines 134, 143).
Truthy(s) == s # None /\ s # ""

\* The test of line 134: `not args.image and not args.base64`.
MissingSourceDropped(a) == FALSE
MissingSource(a) == ~Truthy(a.image) /\ ~Truthy(a.base64)

\* The threshold of line 76, in millionths.
ConfThreshold == 100000

\* Line 76: `confidence > 0.1`.
KeepAtLeast(confidence) == confidence >= ConfThreshold
Keep(confidence) == confidence > ConfThreshold

\* int(): truncation toward zero of a half-pixel coordinate.
IntOf(c) == IF c >= 0 THEN c \div 2 ELSE -((-c) \div 2)

\* Lines 80-85: first and third point of the polygon.
Bbox(poly) ==
    [x0 |-> IntOf(poly[1][1]), y0 |-> IntOf(poly[1][2]),
     x1 |-> IntOf(poly[3][1]), y1 |-> IntOf(poly[3][2])]

IsSpace(c) == c = " " \/ c = "\n"

RECURSIVE LStrip(_)
LStrip(t) == IF t # <<>> /\ IsSpace(Head(t)) THEN LStrip(Tail(t)) ELSE t

RECURSIVE RStrip(_)
RStrip(t) ==
    IF t # <<>> /\ IsSpace(t[Len(t)]) THEN RStrip(SubSeq(t, 1, Len(t) - 1)) ELSE t

\* str.strip() (line 78).
Strip(t) == RStrip(LStrip(t))

\* Lines 77-86: the dictionary appended for one detection.
Entry(d) == [text |-> Strip(d.text), confidence |-> d.confidence, bbox |-> Bbox(d.bbox)]

\* Lines 73-86: the loop over the engine's triples.
RECURSIVE FormatLoop(_, _, _)
FormatLoop(rs, i, acc) ==
    IF i > Len(rs) THEN acc
    ELSE FormatLoop(rs, i + 1,
                    IF Keep(rs[i].confidence) THEN Append(acc, Entry(rs[i])) ELSE acc)

FormatResults(rs) == FormatLoop(rs, 1, <<>>)

\* base64.b64decode + Image.open (lines 101-102): the image, or None on failure.
DecodeImage(s) ==
    CASE s = "aW1hZ2Ux" -> "image1"
      [] s = "aW1hZ2Uy" -> "image2"
      [] OTHER -> None

\* Line 108: the path every instance uses.
UniqueTempPathOf(p) == IF p = 1 THEN "/tmp/temp_ocr_image_1.jpg" ELSE "/tmp/temp_ocr_image_2.jpg"
TempPathOf(p) == "/tmp/temp_ocr_image.jpg"

Exists(f, path) == path \in DOMAIN f
WriteFile(f, path, img) == [q \in DOMAIN f \cup {path} |-> IF q = path THEN img ELSE f[q]]
RemoveFile(f, path) == [q \in DOMAIN f \ {path} |-> f[q]]
\* cv2.imread: the image at the path, or None.
Imread(f, path) == IF Exists(f, path) THEN f[path] ELSE None

\* Lines 28-54: preprocess_image.  `img` is what cv2.imread gave (line 30),
\* `img2` what the reload of line 54 gives, chainFails whether one of the
\* transforms of lines 35-47 raises (cv2.error, MemoryError) on a loaded image.
PreprocessImage(img, img2, chainFails) ==
    IF img = None
    THEN [image |-> img2, log |-> <<"Error preprocessing image">>, kinds |-> {"load"}]
    ELSE IF chainFails
    THEN [image |-> img2, log |-> <<"Error preprocessing image">>, kinds |-> {"preprocess"}]
    ELSE [image |-> img, log |-> <<>>, kinds |-> {}]

\* Lines 91-93: the handler of extract_text_from_image.
OnExtractErrorSilent(log, kinds) ==
    [raised |-> FALSE, results |-> <<>>, raw |-> <<>>, returned |-> FALSE,
     log |-> log, kinds |-> kinds]
OnExtractErrorReraise(log, kinds) ==
    [raised |-> TRUE, results |-> <<>>, raw |-> <<>>, returned |-> FALSE,
     log |-> log, kinds |-> kinds]
OnExtractError(log, kinds) ==
    [raised |-> FALSE, results |-> <<>>, raw |-> <<>>, returned |-> FALSE,
     log |-> Append(log, "Error extracting text"), kinds |-> kinds]

\* Lines 56-93: extract_text_from_image.  `file` is the image stored at the
\* path when the call reads it (None: nothing readable there), engineFails
\* whether readtext raises on a readable input, r what it returns otherwise.
\* readtext raises on an input it cannot read (None, or a path with no image).
ExtractTextFromImage(file, preprocess, chainFails, engineFails, r) ==
    LET pre == IF preprocess
               THEN PreprocessImage(file, file, chainFails)
               ELSE [image |-> file, log |-> <<>>,
                     kinds |-> IF file = None THEN {"load"} ELSE {}]
        log == <<"Processing image">> \o pre.log
    IN IF pre.image = None
       THEN OnExtractError(log, pre.kinds)
       ELSE IF engineFails
       THEN OnExtractError(log, pre.kinds \cup {"engine"})
       ELSE [raised |-> FALSE, results |-> FormatResults(r), raw |-> r,
             returned |-> TRUE, log |-> Append(log, "Extracted text elements"),
             kinds |-> pre.kinds]

\* print(s): the characters of s, then a newline.
Emit(s) == Append(s, "\n")

RECURSIVE Join(_, _)
Join(parts, sep) ==
    IF parts = <<>> THEN <<>>
    ELSE IF Len(parts) = 1 THEN parts[1]
    ELSE parts[1] \o sep \o Join(Tail(parts), sep)

\* json.dumps(results, indent=2) (line 150).  An object is one opaque token.
JsonDumpsNullForEmpty(rs) ==
    IF rs = <<>> THEN <<"n", "u", "l", "l">>
    ELSE <<"[", "\n">>
         \o Join([i \in 1..Len(rs) |-> <<ToString(rs[i])>>], <<",", "\n">>)
         \o <<"\n", "]">>
JsonDumps(rs) ==
    IF rs = <<>> THEN <<"[", "]">>
    ELSE <<"[", "\n">>
         \o Join([i \in 1..Len(rs) |-> <<ToString(rs[i])>>], <<",", "\n">>)
         \o <<"\n", "]">>

\* Lines 153-154: '\n'.join of the text fields.
TextDump(rs) == Join([i \in 1..Len(rs) |-> rs[i].text], <<"\n">>)

\* Lines 149-154.
Render(fmt, rs) == IF fmt = "json" THEN Emit(JsonDumps(rs)) ELSE Emit(TextDump(rs))

\* Lines 156-158: main's handler: what the process does on an escaped exception.
MainExceptSwallow == [pc |-> "extract", exit |-> <<>>]
MainExcept == [pc |-> "exited", exit |-> <<1>>]


\* ------------------------------------------------------------------ state

ArgSpace ==
    [image : {None, "", MissingPath, ImagePath},
     base64 : {None, "", BadPayload, PayloadOf(1)},
     no_preprocess : BOOLEAN,
     output_format : {"json", "text"}]

Fresh(ps, a, files) ==
    /\ procs = ps
    /\ args = a
    /\ pc = [p \in Procs |-> IF p \in ps THEN "start" ELSE "absent"]
    /\ reader = [p \in Procs |-> "none"]
    /\ inits = [p \in Procs |-> 0]
    /\ started = [p \in Procs |-> FALSE]
    /\ fs = files
    /\ tmpPath = [p \in Procs |-> None]
    /\ raw = [p \in Procs |-> <<>>]
    /\ engineReturned = [p \in Procs |-> FALSE]
    /\ results = [p \in Procs |-> <<>>]
    /\ stdout = [p \in Procs |-> <<>>]
    /\ stderr = [p \in Procs |-> <<>>]
    /\ exit = [p \in Procs |-> <<>>]
    /\ failures = [p \in Procs |-> {}]
    /\ wrote = [p \in Procs |-> FALSE]
    /\ ocrSaw = [p \in Procs |-> "unset"]

NoArgs == [image |-> None, base64 |-> None, no_preprocess |-> FALSE, output_format |-> "json"]

Disk == [q \in {ImagePath} |-> "page"]

\* One instance, any command line argparse accepts.
Init ==
    \E a \in ArgSpace :
        Fresh({1}, [p \in Procs |-> IF p = 1 THEN a ELSE NoArgs], Disk)

\* Two instances, each started with --base64 and its own image.
InitRace ==
    \E np \in [Procs -> BOOLEAN] :
        Fresh(Procs,
              [p \in Procs |-> [image |-> None, base64 |-> PayloadOf(p),
                                no_preprocess |-> np[p], output_format |-> "json"]],
              Disk)

\* What readtext may return: any list in a single-instance run; in a run of
\* two instances, where only the temp file matters, copies of one detection.
EngineResults ==
    IF Cardinality(procs) = 1
    THEN SeqsUpTo(Detections, MaxDet)
    ELSE SeqsUpTo(RaceDetections, RaceMaxDet)

Log(p, lines) == stderr' = [stderr EXCEPT ![p] = @ \o lines]

\* ---------------------------------------------------------------- actions

\* Lines 132-136: parse_args and the test for a missing source.
ParseArgs(p) ==
    /\ pc[p] = "start"
    /\ IF MissingSource(args[p])
       THEN /\ Log(p, <<"Error: Must provide either --image or --base64">>)
            /\ exit' = [exit EXCEPT ![p] = <<1>>]
            /\ pc' = [pc EXCEPT ![p] = "exited"]
       ELSE /\ pc' = [pc EXCEPT ![p] = "init"]
            /\ UNCHANGED << stderr, exit >>
    /\ UNCHANGED << procs, args, reader, inits, started, fs, tmpPath, raw,
                    engineReturned, results, stdout, failures, wrote, ocrSaw >>

\* Lines 18-22 and 140: OCRService(); a failure escapes to lines 156-158.
InitEngine(p) ==
    /\ pc[p] = "init"
    /\ inits' = [inits EXCEPT ![p] = @ + 1]
    /\ \E ok \in BOOLEAN :
        IF ok
        THEN /\ reader' = [reader EXCEPT ![p] = "ready"]
             /\ Log(p, <<"Initializing EasyOCR...", "EasyOCR initialized successfully">>)
             /\ pc' = [pc EXCEPT ![p] = "extract"]
             /\ UNCHANGED exit
        ELSE /\ reader' = [reader EXCEPT ![p] = "failed"]
             /\ Log(p, <<"Initializing EasyOCR...", "Error">>)
             /\ pc' = [pc EXCEPT ![p] = MainExcept.pc]
             /\ exit' = [exit EXCEPT ![p] = MainExcept.exit]
    /\ UNCHANGED << procs, args, started, fs, tmpPath, raw, engineReturned,
                    results, stdout, failures, wrote, ocrSaw >>

\* Lines 143-144: extract_text_from_image(args.image, not args.no_preprocess).
ExtractFromImage(p) ==
    /\ pc[p] = "extract"
    /\ Truthy(args[p].image)
    /\ started' = [started EXCEPT ![p] = TRUE]
    /\ \E chainFails \in BOOLEAN, engineFails \in BOOLEAN, r \in EngineResults :
        LET file == Imread(fs, args[p].image)
            out == ExtractTextFromImage(file, ~args[p].no_preprocess,
                                        chainFails, engineFails, r)
        IN /\ ocrSaw' = [ocrSaw EXCEPT ![p] = file]
           /\ raw' = [raw EXCEPT ![p] = out.raw]
           /\ engineReturned' = [engineReturned EXCEPT ![p] = out.returned]
           /\ failures' = [failures EXCEPT ![p] = @ \cup out.kinds]
           /\ IF out.raised
              THEN /\ Log(p, out.log \o <<"Error">>)
                   /\ pc' = [pc EXCEPT ![p] = MainExcept.pc]
                   /\ exit' = [exit EXCEPT ![p] = MainExcept.exit]
                   /\ UNCHANGED results
              ELSE /\ Log(p, out.log)
                   /\ results' = [results EXCEPT ![p] = out.results]
                   /\ pc' = [pc EXCEPT ![p] = "output"]
                   /\ UNCHANGED exit
    /\ UNCHANGED << procs, args, reader, inits, fs, tmpPath, stdout, wrote >>

\* Lines 145-146 and 99-109: extract_text_from_base64 up to cv2.imwrite; a
\* payload that does not decode goes to the handler of lines 121-123.
B64Decode(p) ==
    /\ pc[p] = "extract"
    /\ ~Truthy(args[p].image)
    /\ started' = [started EXCEPT ![p] = TRUE]
    /\ LET image == DecodeImage(args[p].base64)
       IN IF image = None
          THEN /\ Log(p, <<"Error processing base64 image">>)
               /\ failures' = [failures EXCEPT ![p] = @ \cup {"decode"}]
               /\ results' = [results EXCEPT ![p] = <<>>]
               /\ pc' = [pc EXCEPT ![p] = "output"]
               /\ UNCHANGED << fs, tmpPath, wrote >>
          ELSE /\ tmpPath' = [tmpPath EXCEPT ![p] = TempPathOf(p)]
               /\ fs' = WriteFile(fs, TempPathOf(p), image)
               /\ wrote' = [wrote EXCEPT ![p] = TRUE]
               /\ pc' = [pc EXCEPT ![p] = "b64_ocr"]
               /\ UNCHANGED << stderr, failures, results >>
    /\ UNCHANGED << procs, args, reader, inits, raw, engineReturned, stdout,
                    exit, ocrSaw >>

\* Line 112: extract_text_from_image(temp_path, preprocess); an exception it
\* let through would go to the handler of lines 121-123.  The reads of the
\* file inside the call (lines 30, 54, 70) are taken as one read.
B64Ocr(p) ==
    /\ pc[p] = "b64_ocr"
    /\ \E chainFails \in BOOLEAN, engineFails \in BOOLEAN, r \in EngineResults :
        LET file == Imread(fs, tmpPath[p])
            out == ExtractTextFromImage(file, ~args[p].no_preprocess,
                                        chainFails, engineFails, r)
        IN /\ ocrSaw' = [ocrSaw EXCEPT ![p] = file]
           /\ raw' = [raw EXCEPT ![p] = out.raw]
           /\ engineReturned' = [engineReturned EXCEPT ![p] = out.returned]
           /\ failures' = [failures EXCEPT ![p] = @ \cup out.kinds]
           /\ IF out.raised
              THEN /\ Log(p, out.log \o <<"Error processing base64 image">>)
                   /\ results' = [results EXCEPT ![p] = <<>>]
                   /\ pc' = [pc EXCEPT ![p] = "output"]
              ELSE /\ Log(p, out.log)
                   /\ results' = [results EXCEPT ![p] = out.results]
                   /\ pc' = [pc EXCEPT ![p] = "b64_exists"]
    /\ UNCHANGED << procs, args, reader, inits, started, fs, tmpPath, stdout,
                    exit, wrote >>

\* Line 116: os.path.exists(temp_path).
B64Exists(p) ==
    /\ pc[p] = "b64_exists"
    /\ pc' = [pc EXCEPT ![p] = IF Exists(fs, tmpPath[p]) THEN "b64_remove" ELSE "output"]
    /\ UNCHANGED << procs, args, reader, inits, started, fs, tmpPath, raw,
                    engineReturned, results, stdout, stderr, exit, failures, wrote,
                    ocrSaw >>

\* Line 117: os.remove(temp_path); FileNotFoundError goes to lines 121-123.
B64Remove(p) ==
    /\ pc[p] = "b64_remove"
    /\ IF Exists(fs, tmpPath[p])
       THEN /\ fs' = RemoveFile(fs, tmpPath[p])
            /\ UNCHANGED << results, stderr, failures >>
       ELSE /\ Log(p, <<"Error processing base64 image">>)
            /\ results' = [results EXCEPT ![p] = <<>>]
            /\ failures' = [failures EXCEPT ![p] = @ \cup {"cleanup"}]
            /\ UNCHANGED fs
    /\ pc' = [pc EXCEPT ![p] = "output"]
    /\ UNCHANGED << procs, args, reader, inits, started, tmpPath, raw,
                    engineReturned, stdout, exit, wrote, ocrSaw >>

\* Lines 149-154, then the normal end of main().
Output(p) ==
    /\ pc[p] = "output"
    /\ stdout' = [stdout EXCEPT ![p] = @ \o Render(args[p].output_format, results[p])]
    /\ pc' = [pc EXCEPT ![p] = "done"]
    /\ exit' = [exit EXCEPT ![p] = <<0>>]
    /\ UNCHANGED << procs, args, reader, inits, started, fs, tmpPath, raw,
                    engineReturned, results, stderr, failures, wrote, ocrSaw >>

Next ==
    \/ \E p \in procs : ParseArgs(p)
    \/ \E p \in procs : InitEngine(p)
    \/ \E p \in procs : ExtractFromImage(p)
    \/ \E p \in procs : B64Decode(p)
    \/ \E p \in procs : B64Ocr(p)
    \/ \E p \in procs : B64Exists(p)
    \/ \E p \in procs : B64Remove(p)
    \/ \E p \in procs : Output(p)

Spec == Init /\ [][Next]_vars

NextRace ==
    \/ \E p \in procs : ParseArgs(p)
    \/ \E p \in procs : InitEngine(p)
    \/ \E p \in procs : B64Decode(p)
    \/ \E p \in procs : B64Ocr(p)
    \/ \E p \in procs : B64Exists(p)
    \/ \E p \in procs : B64Remove(p)
    \/ \E p \in procs : Output(p)

SpecRace == InitRace /\ [][NextRace]_vars


\* ----------------------------------------------------------------- claims

Finished(p) == pc[p] \in {"done", "exited"}

AboveThreshold(d) == d.confidence > 100000

\* C1: when readtext returned a list, extract_text_from_image returns one
\* entry for each triple whose confidence is strictly above 0.1, in the
\* engine's order, and nothing else: a confidence of exactly 0.1 is left out.
C1_ConfidenceFilter ==
    \A p \in procs :
        engineReturned[p] =>
            LET kept == SelectSeq(raw[p], AboveThreshold)
            IN /\ Len(results[p]) = Len(kept)
               /\ \A i \in 1..Len(kept) :
                    /\ results[p][i].confidence = kept[i].confidence
                    /\ results[p][i].text = Strip(kept[i].text)
                    /\ results[p][i].bbox = Bbox(kept[i].bbox)
               /\ \A i \in 1..Len(results[p]) : results[p][i].confidence # 100000

\* The engine returned a detection at exactly 0.1 followed by one at 0.100001;
\* only the second was returned.
C1_Witness ==
    \E p \in procs :
        /\ engineReturned[p]
        /\ Len(raw[p]) = 2
        /\ raw[p][1].confidence = 100000
        /\ raw[p][2].confidence = 100001
        /\ Len(results[p]) = 1
        /\ results[p][1].confidence = 100001

\* C2: every returned detection has bbox.x0 <= bbox.x1 and bbox.y0 <= bbox.y1,
\* whatever polygon the engine gave.
C2_BboxOrdered ==
    \A p \in procs :
        \A i \in 1..Len(results[p]) :
            /\ results[p][i].bbox.x0 <= results[p][i].bbox.x1
            /\ results[p][i].bbox.y0 <= results[p][i].bbox.y1

\* C3: with neither --image nor --base64 the process writes nothing to stdout,
\* never constructs the engine, never starts an extraction, and once past the
\* argument test it has exited with code 1 and an error line on stderr.
C3_NoSourceExits ==
    \A p \in procs :
        (args[p].image = None /\ args[p].base64 = None) =>
            /\ stdout[p] = <<>>
            /\ inits[p] = 0
            /\ reader[p] = "none"
            /\ ~started[p]
            /\ pc[p] \in {"start", "exited"}
            /\ pc[p] = "exited" =>
                 /\ exit[p] = <<1>>
                 /\ stderr[p] = <<"Error: Must provide either --image or --base64">>

C3_Witness ==
    \E p \in procs :
        /\ args[p].image = None
        /\ args[p].base64 = None
        /\ pc[p] = "exited"
        /\ exit[p] = <<1>>

\* C4: when both --image and --base64 are supplied, the process exits with
\* code 1 and runs no extraction.
C4_BothRejected ==
    \A p \in procs :
        (Truthy(args[p].image) /\ Truthy(args[p].base64)) =>
            /\ ~started[p]
            /\ Finished(p) => exit[p] = <<1>>

\* C5: for a path with no readable image, extract_text_from_image returns the
\* empty list without letting an exception out, with preprocessing on or off,
\* and has logged an error line; with preprocessing on it has logged two.
C5_UnreadablePathGivesEmpty ==
    \A p \in procs :
        (Truthy(args[p].image) /\ ~Exists(fs, args[p].image) /\ started[p]) =>
            /\ pc[p] \in {"output", "done"}
            /\ exit[p] # <<1>>
            /\ results[p] = <<>>
            /\ \E i \in 1..Len(stderr[p]) : stderr[p][i] = "Error extracting text"
            /\ ~args[p].no_preprocess =>
                 \E i \in 1..Len(stderr[p]) : stderr[p][i] = "Error preprocessing image"

C5_Witness ==
    \E p \in procs :
        /\ args[p].image = MissingPath
        /\ ~args[p].no_preprocess
        /\ pc[p] = "output"
        /\ results[p] = <<>>
        /\ stderr[p] = <<"Initializing EasyOCR...", "EasyOCR initialized successfully",
                         "Processing image", "Error preprocessing image",
                         "Error extracting text">>

RECURSIVE SplitAcc(_, _, _)
SplitAcc(s, cur, acc) ==
    IF s = <<>> THEN (IF cur = <<>> THEN acc ELSE Append(acc, cur))
    ELSE IF Head(s) = "\n" THEN SplitAcc(Tail(s), <<>>, Append(acc, cur))
    ELSE SplitAcc(Tail(s), Append(cur, Head(s)), acc)

\* The lines of an output: each run of characters ended by a newline.
SplitLines(s) == SplitAcc(s, <<>>, <<>>)

\* C6: in text mode stdout holds exactly one line per detection, the i-th line
\* being the i-th detection's text, for every N >= 0.
C6_TextLines ==
    \A p \in procs :
        (pc[p] = "done" /\ args[p].output_format = "text") =>
            SplitLines(stdout[p]) = [i \in 1..Len(results[p]) |-> results[p][i].text]

EmptyJson == <<"[", "]", "\n">>

\* C7 as stated: after any recoverable failure the process ends with code 0 and,
\* in JSON mode, stdout is exactly `[]`.
C7_FailurePrintsEmpty ==
    \A p \in procs :
        failures[p] # {} =>
            /\ pc[p] # "exited"
            /\ (pc[p] = "done" /\ args[p].output_format = "json") =>
                 /\ exit[p] = <<0>>
                 /\ stdout[p] = EmptyJson

\* C7 as amended: after any recoverable failure the process never exits with
\* code 1 and ends with code 0; in JSON mode stdout is exactly `[]` when the
\* failure was an image load, a base64 decode or an engine failure.  (A failed
\* transform whose grayscale reload works is followed by a normal OCR run.)
C7_FailureEndsNormally ==
    \A p \in procs :
        failures[p] # {} =>
            /\ reader[p] = "ready"
            /\ pc[p] # "exited"
            /\ exit[p] # <<1>>
            /\ pc[p] = "done" =>
                 /\ exit[p] = <<0>>
                 /\ (args[p].output_format = "json"
                       /\ failures[p] \cap {"load", "decode", "engine"} # {})
                      => stdout[p] = EmptyJson

C7_Witness ==
    \E p \in procs :
        /\ failures[p] = {"preprocess", "engine"}
        /\ args[p].output_format = "json"
        /\ pc[p] = "done"
        /\ exit[p] = <<0>>
        /\ stdout[p] = EmptyJson

\* C8: in a single process, once extract_text_from_base64 has written the temp
\* file and returned, the temp file does not exist, whether the delegated
\* extraction returned detections or failed.
C8_TempFileRemoved ==
    \A p \in procs :
        (wrote[p] /\ pc[p] \in {"output", "done"}) => ~Exists(fs, tmpPath[p])

\* The call wrote the file, the delegated extraction failed, the call returned.
C8_Witness ==
    \E p \in procs :
        /\ wrote[p]
        /\ pc[p] = "output"
        /\ "engine" \in failures[p]
        /\ ~Exists(fs, "/tmp/temp_ocr_image.jpg")

OwnImage(p) == DecodeImage(args[p].base64)

\* C9: concurrent instances use one and the same temp path, so what an
\* instance's OCR step finds there is whatever any instance last left: its own
\* image, another instance's image, or nothing; it finds something other than
\* its own image only when another instance has written the path.
C9_SharedTempPath ==
    /\ \A p \in procs, q \in procs :
         (tmpPath[p] # None /\ tmpPath[q] # None) => tmpPath[p] = tmpPath[q]
    /\ \A p \in procs :
         ocrSaw[p] # "unset" =>
            /\ ocrSaw[p] \in {None} \cup {OwnImage(q) : q \in {r \in procs : wrote[r]}}
            /\ ocrSaw[p] # OwnImage(p) => \E q \in procs \ {p} : wrote[q]

\* Instance 1's OCR step read instance 2's image, and instance 2's OCR step
\* found the file already deleted.
C9_RaceReached ==
    /\ procs = {1, 2}
    /\ OwnImage(1) = "image1"
    /\ ocrSaw[1] = "image2"
    /\ ocrSaw[2] = None

\* C10: the engine is constructed at most once; an extraction starts only
\* after a successful construction; after a failed construction no extraction
\* has started, stdout is empty and the process has exited with code 1.
C10_EngineOnceBeforeExtraction ==
    \A p \in procs :
        /\ inits[p] <= 1
        /\ started[p] => (reader[p] = "ready" /\ inits[p] = 1)
        /\ reader[p] = "failed" =>
             /\ ~started[p]
             /\ stdout[p] = <<>>
             /\ pc[p] = "exited"
             /\ exit[p] = <<1>>

C10_Witness ==
    \E p \in procs :
        /\ reader[p] = "failed"
        /\ inits[p] = 1
        /\ pc[p] = "exited"
        /\ exit[p] = <<1>>

=============================================================================
